---- MODULE Spec2Model ----
(***************************************************************************)
(* A model of unredact.py (class PDFBoxReplacer).                          *)
(*                                                                         *)
(* Part I  - the interactive session: open_pdf, prev_page, next_page,      *)
(*           on_canvas_click, replace_boxes (apply_replacements followed   *)
(*           by load_page / find_boxes_on_page), zoom_in, zoom_out,        *)
(*           zoom_fit_width, draw_boxes.                                   *)
(* Part II - the line reconstructor: group_words_into_lines,               *)
(*           build_line_text, extract_lines_with_positions.                *)
(* Part III - text extraction and reports: extract_text_from_pdf,          *)
(*           create_html_from_text, auto_unredact, unredact_all,           *)
(*           show_unredacted_results.                                      *)
(*                                                                         *)
(* Units.  Page geometry is kept in pixels of the 2x detection render      *)
(* (fitz.Matrix(2, 2)), i.e. half points, so that x / 2 of the code is     *)
(* exact; box widths and heights (round(.., 1)) are kept in tenths of a    *)
(* point.  Word coordinates of Part II are kept in tenths of a point.      *)
(***************************************************************************)
EXTENDS Integers, Sequences, FiniteSets, TLC

VARIABLES
    pdf_doc,        \* self.pdf_doc: [name, pages]; NoDoc when None
    current_page,   \* self.current_page (0-based)
    all_boxes,      \* self.all_boxes: the most recent detection list
    selected_box,   \* self.selected_box: a box record, or NoBox when None
    thinDark,       \* whether the renderer keeps a 1-pixel black line below
                    \* the detection threshold when the page image is
                    \* rendered at 2x (a property of the rendering library)
    zoom,           \* self.zoom, as a fraction <<num, den>> in lowest terms
    canvas_boxes,   \* the rectangles the last draw_boxes call put on the canvas
    nReplace,       \* number of apply_replacements calls made so far
    nZoom,          \* number of zoom operations made so far
    lastCall,       \* record of the last apply_replacements call
    words,          \* the Word list extract_words returned for a page
    extracted,      \* the last extract_lines_with_positions call on `words`
    line_words,     \* a group of Words handed to build_line_text
    built,          \* the last build_line_text call on `line_words`
    disk,           \* the PDF file the operator is preparing: its one page
    failure,        \* the exception a handler ended with, if any
    batch,          \* the locals of auto_unredact while it runs
    shown,          \* the last results window of show_unredacted_results
    lastOp          \* the last handler the operator invoked, and the session
                    \* fields as it found them

guiVars == <<pdf_doc, current_page, all_boxes, selected_box, thinDark,
             zoom, canvas_boxes, nReplace, nZoom, lastCall>>

lineVars == <<words, extracted, line_words, built>>

auxVars == <<disk, failure, batch, shown, lastOp>>

vars == <<pdf_doc, current_page, all_boxes, selected_box, thinDark,
          zoom, canvas_boxes, nReplace, nZoom, lastCall, words, extracted,
          line_words, built,
          disk, failure, batch, shown, lastOp>>

(***************************************************************************)
(* Bounds of the model.                                                    *)
(***************************************************************************)
MaxReplace == 2

MaxWords == 4

MaxLineWords == 3

MaxFills == 2

MaxBatch == 3

MaxZoom == 2

(***************************************************************************)
(* Arithmetic helpers.                                                     *)
(***************************************************************************)
Abs(x) == IF x < 0 THEN -x ELSE x

Max(a, b) == IF a >= b THEN a ELSE b

\* Python's round(n / d) for d > 0: to the nearest integer, ties to even.
RoundHalfEven(n, d) ==
    LET q == n \div d
        r == n % d
    IN  IF 2 * r < d THEN q
        ELSE IF 2 * r > d THEN q + 1
        ELSE IF q % 2 = 0 THEN q ELSE q + 1

\* round(v, 1) of a length of v = halfPts / 2 points, in tenths of a point.
Round1(halfPts) == RoundHalfEven(10 * halfPts, 2)

(***************************************************************************)
(* Documents.  A page is its size in points, the bounding boxes <<x, y, w, *)
(* h>> (pixels of the 2x render) of its solid dark connected components in *)
(* contour order, its fill primitives of a given colour, the bounding      *)
(* boxes of its 1-pixel black outlines, the text labels drawn on it, and   *)
(* whether it is an image-backed page.                                     *)
(***************************************************************************)
Page(name, no, dark) ==
    [orig |-> <<name, no>>, w |-> 300, h |-> 200, dark |-> dark,
     fills |-> <<>>, thin |-> <<>>, labels |-> {}, image |-> FALSE]

NoDoc == [name |-> "None", pages |-> <<>>]

DocA ==
    [name |-> "a.pdf",
     pages |-> << Page("a.pdf", 0, << <<20, 20, 200, 40>>, <<20, 100, 200, 40>>,
                                      <<300, 20, 100, 20>> >>),
                  Page("a.pdf", 1, << <<20, 20, 204, 44>>, <<21, 101, 205, 40>>,
                                      <<300, 21, 196, 36>> >>),
                  Page("a.pdf", 2, << <<20, 20, 100, 20>>, <<5, 5, 10, 10>>,
                                      <<0, 300, 500, 30>> >>) >>]

DocB ==
    [name |-> "b.pdf",
     pages |-> << Page("b.pdf", 0, << <<11, 13, 201, 41>>, <<300, 100, 21, 11>> >>) >>]

DocC ==
    [name |-> "c.pdf",
     pages |-> << Page("c.pdf", 0, <<>>),
                  Page("c.pdf", 1, << <<40, 40, 200, 40>>, <<40, 120, 203, 37>>,
                                      <<300, 40, 200, 90>> >>) >>]

Files == {DocA, DocB, DocC}

\* Points of the page (in half points) the operator may click on.
ClickPoints ==
    {<<0, 0>>, <<20, 20>>, <<120, 40>>, <<120, 120>>, <<350, 30>>,
     <<224, 64>>, <<100, 141>>, <<400, 40>>, <<60, 30>>, <<100, 130>>,
     <<310, 105>>}

\* Texts the operator may type into the replacement dialog.
Texts == {"", "REDACTED", "X"}

NoBox == [rect |-> <<0, 0, 0, 0>>, width |-> 0, height |-> 0, page |-> -1]

\* Python truthiness of self.pdf_doc (None, or a Document with __len__ 0).
Loaded(doc) == doc # NoDoc /\ Len(doc.pages) > 0

(***************************************************************************)
(* find_boxes_on_page: raster detection on the 2x render of a page.        *)
(***************************************************************************)
\* pix.width and pix.height of page.get_pixmap(matrix=fitz.Matrix(2, 2)).
PixWidth(page) == 2 * page.w

PixHeight(page) == 2 * page.h

\* A fill primitive is [rect, color]: the rect <<x, y, w, h>> it covers in
\* the 2x render (half points) and its fill colour <<r, g, b>>, channels in
\* hundredths; NoColor when the page sets no fill colour before painting.
NoColor == <<-1, -1, -1>>

\* The colour the renderer paints a primitive with: black when none is set.
PaintColor(color) == IF color = NoColor THEN <<0, 0, 0>> ELSE color

\* The 8-bit sample of a channel of c hundredths in the pixmap.
Sample8(c) == (255 * c + 50) \div 100

\* cv2.cvtColor(img, cv2.COLOR_BGR2GRAY): 0.299 R + 0.587 G + 0.114 B.
Gray(color) ==
    (299 * Sample8(color[1]) + 587 * Sample8(color[2])
        + 114 * Sample8(color[3]) + 500) \div 1000

\* cv2.threshold(gray, 50, 255, cv2.THRESH_BINARY_INV): a pixel is
\* foreground if and only if its gray value is not above 50.
Foreground(color) == Gray(PaintColor(color)) <= 50

\* The primitives of a page (pairwise apart) that threshold to foreground.
DarkFills(page) ==
    LET fg == SelectSeq(page.fills, LAMBDA p : Foreground(p.color))
    IN  [i \in 1..Len(fg) |-> fg[i].rect]

\* cv2.findContours on the thresholded 2x render: the bounding boxes of the
\* dark connected components.  A 1-pixel outline drawn on a page image is
\* among them only if the renderer keeps it dark at 2x.
Contours(page) ==
    page.dark \o DarkFills(page) \o (IF thinDark THEN page.thin ELSE <<>>)

\* Mutant: the four bounds taken inclusive.
KeepContourInclusive(c, page) ==
    /\ c[3] >= 20
    /\ c[4] >= 10
    /\ 10 * c[3] <= 8 * PixWidth(page)
    /\ 10 * c[4] <= 8 * PixHeight(page)

\* "Filter out very small or very large boxes".
KeepContour(c, page) ==
    /\ c[3] > 20
    /\ c[4] > 10
    /\ 10 * c[3] < 8 * PixWidth(page)
    /\ 10 * c[4] < 8 * PixHeight(page)

\* Mutant: width and height rounded to whole points.
BoxOfWhole(c, cur) ==
    LET rect == <<c[1], c[2], c[1] + c[3], c[2] + c[4]>>
    IN  [rect |-> rect,
         width |-> 10 * RoundHalfEven(rect[3] - rect[1], 2),
         height |-> 10 * RoundHalfEven(rect[4] - rect[2], 2),
         page |-> cur]

\* The dict appended to self.all_boxes; the rect is <<x0, y0, x1, y1>> in
\* half points (pdf_x0 = x / 2, ...), width and height in tenths of a point.
BoxOf(c, cur) ==
    LET rect == <<c[1], c[2], c[1] + c[3], c[2] + c[4]>>
    IN  [rect |-> rect,
         width |-> Round1(rect[3] - rect[1]),
         height |-> Round1(rect[4] - rect[2]),
         page |-> cur]

find_boxes_on_page(page, cur) ==
    LET kept == SelectSeq(Contours(page), LAMBDA c : KeepContour(c, page))
    IN  [i \in 1..Len(kept) |-> BoxOf(kept[i], cur)]

\* load_page: the value of self.all_boxes after the call.
load_page(doc, cur, boxes) ==
    IF ~Loaded(doc) THEN boxes ELSE find_boxes_on_page(doc.pages[cur + 1], cur)

(***************************************************************************)
(* The view: self.zoom and draw_boxes.  Fractions are pairs <<num, den>>   *)
(* with den > 0, in lowest terms.                                          *)
(***************************************************************************)
RECURSIVE GCD(_, _)
GCD(a, b) == IF b = 0 THEN a ELSE GCD(b, a % b)

Frac(num, den) == LET g == GCD(Abs(num), den) IN <<num \div g, den \div g>>

LessFrac(a, b) == a[1] * b[2] < b[1] * a[2]

\* self.zoom = 1.0 in __init__.
InitialZoom == <<1, 1>>

\* "Min 25%" and "Max 500%".
ZoomMin == <<1, 4>>

ZoomMax == <<5, 1>>

\* max(0.25, min(z, 5.0))
ClampZoom(z) ==
    IF LessFrac(ZoomMax, z) THEN ZoomMax
    ELSE IF LessFrac(z, ZoomMin) THEN ZoomMin ELSE z

\* min(self.zoom * 1.25, 5.0)
ZoomedIn(z) == ClampZoom(Frac(5 * z[1], 4 * z[2]))

\* max(self.zoom / 1.25, 0.25)
ZoomedOut(z) == ClampZoom(Frac(4 * z[1], 5 * z[2]))

\* (canvas_width - 20) / page_width, clamped; page_width in points.
ZoomedToFit(canvas_width, page) == ClampZoom(Frac(canvas_width - 20, page.w))

\* Mutant: the selected class told by the width alone.
HighlightedByWidth(box, sel) == sel # NoBox /\ box.width = sel.width

\* "Highlight selected box": self.selected_box is set and the box has its
\* width and its height.
Highlighted(box, sel) ==
    /\ sel # NoBox
    /\ box.width = sel.width
    /\ box.height = sel.height

\* draw_boxes: one canvas rectangle per box of the list, tagged box_<i>
\* (i from 0), at the rect scaled by the zoom (canvas pixels, as fractions),
\* red and 3 wide for the selected class, blue and 2 wide otherwise.
draw_boxes(boxes, sel, z) ==
    [i \in 1..Len(boxes) |->
        [tag |-> i - 1,
         at |-> [k \in 1..4 |-> Frac(boxes[i].rect[k] * z[1], 2 * z[2])],
         color |-> IF Highlighted(boxes[i], sel) THEN "red" ELSE "blue",
         width |-> IF Highlighted(boxes[i], sel) THEN 3 ELSE 2]]

\* load_page: what the last draw_boxes call drew, after the call; load_page
\* returns before it draws when no document is loaded.
load_page_drawn(doc, boxes, sel, z, before) ==
    IF ~Loaded(doc) THEN before ELSE draw_boxes(boxes, sel, z)

(***************************************************************************)
(* apply_replacements.                                                     *)
(***************************************************************************)
\* tolerance=2.0, in tenths of a point.
DefaultTolerance == 20

\* Mutant: the bounds taken exclusive.
MatchesStrict(box, target_width, target_height, tolerance) ==
    /\ Abs(box.width - target_width) < tolerance
    /\ Abs(box.height - target_height) < tolerance

\* "Check if dimensions match (within tolerance)".
Matches(box, target_width, target_height, tolerance) ==
    /\ Abs(box.width - target_width) <= tolerance
    /\ Abs(box.height - target_height) <= tolerance

\* draw.rectangle([x0, y0, x1, y1], ...) on the 1x image paints the pixels
\* int(x0)..int(x1) by int(y0)..int(y1), both ends included; in pixels of the
\* 2x render that is <<left, top, right, bottom>>, ends included.
Painted(box) ==
    <<2 * (box.rect[1] \div 2), 2 * (box.rect[2] \div 2),
      2 * (box.rect[3] \div 2) + 1, 2 * (box.rect[4] \div 2) + 1>>

\* Whether the pixels x..x+w-1 by y..y+h-1 all lie under the painted area.
Covered(x, y, w, h, box) ==
    LET p == Painted(box)
    IN  p[1] <= x /\ x + w - 1 <= p[3] /\ p[2] <= y /\ y + h - 1 <= p[4]

\* The black outline (outline='black', width=1) of the painted rectangle.
Outline(box) ==
    LET p == Painted(box)
    IN  <<p[1], p[2], p[3] - p[1] + 1, p[4] - p[2] + 1>>

\* Mutant: the size not capped at 12.
TextFontSizeUncapped(height) == (6 * height) \div 100

\* font_size = int(min(height * 0.6, 12)), for a height in tenths of a
\* point; the size is a whole number of points.
TextFontSize(height) ==
    (IF 6 * height < 1200 THEN 6 * height ELSE 1200) \div 100

\* Mutant: every detected box drawn over, matched or not.
RedrawnAll(page, matched, text) ==
    [orig |-> page.orig, w |-> page.w, h |-> page.h, image |-> TRUE,
     dark |-> SelectSeq(page.dark, LAMBDA c : ~KeepContour(c, page)),
     fills |-> page.fills,
     thin |-> page.thin,
     labels |-> page.labels
                \cup {[rect |-> <<c[1], c[2], c[1] + c[3], c[2] + c[4]>>,
                       text |-> text, font_size |-> 12] :
                          c \in {page.dark[i] : i \in 1..Len(page.dark)}}]

\* The image-backed page that replaces `page`: the 1x render of the page
\* with a white, black-outlined rectangle and the text, in the font size
\* asked of ImageFont.truetype, over each matched box.
Redrawn(page, matched, text) ==
    LET hidden(x, y, w, h) ==
            \E i \in 1..Len(matched) : Covered(x, y, w, h, matched[i])
    IN  [orig |-> page.orig, w |-> page.w, h |-> page.h, image |-> TRUE,
         dark |-> SelectSeq(page.dark,
                      LAMBDA c : ~hidden(c[1], c[2], c[3], c[4])),
         fills |-> SelectSeq(page.fills,
                       LAMBDA p : ~hidden(p.rect[1], p.rect[2], p.rect[3],
                                          p.rect[4])),
         thin |-> SelectSeq(page.thin,
                      LAMBDA c : ~hidden(c[1], c[2], c[3], c[4]))
                  \o [i \in 1..Len(matched) |-> Outline(matched[i])],
         labels |-> {l \in page.labels :
                        ~hidden(l.rect[1], l.rect[2], l.rect[3] - l.rect[1],
                                l.rect[4] - l.rect[2])}
                    \cup {[rect |-> matched[i].rect, text |-> text,
                           font_size |-> TextFontSize(matched[i].height)] :
                              i \in 1..Len(matched)}]

\* self.pdf_doc.delete_page(pno), pno 0-based.
DeletePage(pages, pno) ==
    [i \in 1..(Len(pages) - 1) |-> IF i <= pno THEN pages[i] ELSE pages[i + 1]]

\* self.pdf_doc.insert_pdf(temp_pdf, from_page=0, to_page=0, start_at=...):
\* the copied page becomes page number start_at; a start_at out of range
\* appends.
InsertPdf(pages, newPage, start_at) ==
    LET sa == IF start_at < 0 \/ start_at > Len(pages)
              THEN Len(pages) ELSE start_at
    IN  SubSeq(pages, 1, sa) \o <<newPage>> \o SubSeq(pages, sa + 1, Len(pages))

\* Mutant: the new page appended (start_at left at its default).
ReplacePageAppend(pages, cur, newPage) ==
    InsertPdf(DeletePage(pages, cur), newPage, -1)

\* "Replace the page in the main document".
ReplacePage(pages, cur, newPage) ==
    InsertPdf(DeletePage(pages, cur), newPage, cur)

\* Mutant: the page re-encoded and replaced whatever the count.
apply_replacements_unguarded(doc, cur, boxes, target_width, target_height, text, tolerance) ==
    LET page == doc.pages[cur + 1]
        matched == SelectSeq(boxes,
                       LAMBDA b : Matches(b, target_width, target_height, tolerance))
    IN  [count |-> Len(matched),
         hits |-> {i \in 1..Len(boxes) :
                      Matches(boxes[i], target_width, target_height, tolerance)},
         doc |-> [doc EXCEPT !.pages =
                     ReplacePage(@, cur, Redrawn(page, matched, text))]]

\* apply_replacements(target_width, target_height, text, tolerance): the
\* count it returns, the indices (into all_boxes) of the boxes it drew over,
\* and the document it leaves.
apply_replacements(doc, cur, boxes, target_width, target_height, text, tolerance) ==
    LET page == doc.pages[cur + 1]
        matched == SelectSeq(boxes,
                       LAMBDA b : Matches(b, target_width, target_height, tolerance))
        count == Len(matched)
    IN  [count |-> count,
         hits |-> {i \in 1..Len(boxes) :
                      Matches(boxes[i], target_width, target_height, tolerance)},
         doc |-> IF count > 0
                 THEN [doc EXCEPT !.pages =
                          ReplacePage(@, cur, Redrawn(page, matched, text))]
                 ELSE doc]

NoCall ==
    [called |-> FALSE, target_width |-> 0, target_height |-> 0, text |-> "",
     tolerance |-> 0, count |-> 0, hits |-> {}, boxes |-> <<>>,
     page |-> 0, pre_doc |-> NoDoc, post_doc |-> NoDoc, post_page |-> 0,
     post_boxes |-> <<>>]

(***************************************************************************)
(* Part II - the line reconstructor.  A Word is [text, x0, x1, top,        *)
(* bottom, size], coordinates in tenths of a point; size is NoSize when    *)
(* the extraction backend gives none.  Arithmetic is exact: the running    *)
(* average of group_words_into_lines is kept as a fraction num / den.      *)
(***************************************************************************)
NoSize == -1

\* Whether key a sorts before or with key b; keys are pairs, compared as
\* Python compares tuples.
LeqKey(a, b) == a[1] < b[1] \/ (a[1] = b[1] /\ a[2] <= b[2])

\* sorted(...) is stable: the indices 1..n of `keys` in ascending key order,
\* equal keys in their original order.
RECURSIVE SortedIdx(_, _)
SortedIdx(keys, n) ==
    IF n = 0 THEN <<>>
    ELSE LET idx == SortedIdx(keys, n - 1)
             p == Cardinality({j \in 1..Len(idx) : LeqKey(keys[idx[j]], keys[n])})
         IN  SubSeq(idx, 1, p) \o <<n>> \o SubSeq(idx, p + 1, Len(idx))

SortedBy(s, keys) ==
    LET idx == SortedIdx(keys, Len(s)) IN [i \in 1..Len(s) |-> s[idx[i]]]

\* Mutant: the sort key with x0 first.
KeyX0Top(w) == <<w.x0, w.top>>

\* key=lambda w: (float(w.get("top", 0.0)), float(w.get("x0", 0.0)))
KeyTopX0(w) == <<w.top, w.x0>>

\* key=lambda w: float(w.get("x0", 0.0))
KeyX0(w) == <<w.x0, 0>>

SortNumbers(s) == SortedBy(s, [i \in 1..Len(s) |-> <<s[i], 0>>])

\* abs(top - current_top) <= line_tol, current_top = ct.num / ct.den.
JoinsCluster(top, ct, line_tol) ==
    Abs(top * ct.den - ct.num) <= line_tol * ct.den

\* Mutant: the cluster anchored to the top of its first Word.
UpdatedTopFirst(ct, n, top) == ct

\* current_top = (current_top * (len(current) - 1) + top) / len(current)
UpdatedTop(ct, n, top) ==
    [num |-> ct.num * (n - 1) + top * ct.den, den |-> ct.den * n]

\* The for loop of group_words_into_lines over the sorted words `ws`, with
\* the closed clusters `lines`, the open cluster `current` (empty while
\* current_top is None) and its current_top `ct`.
RECURSIVE GroupLoop(_, _, _, _, _)
GroupLoop(ws, lines, current, ct, line_tol) ==
    IF ws = <<>>
    THEN IF current # <<>> THEN Append(lines, current) ELSE lines
    ELSE LET w == Head(ws)
         IN  IF current = <<>>
             THEN GroupLoop(Tail(ws), lines, <<w>>,
                            [num |-> w.top, den |-> 1], line_tol)
             ELSE IF JoinsCluster(w.top, ct, line_tol)
             THEN GroupLoop(Tail(ws), lines, Append(current, w),
                            UpdatedTop(ct, Len(current) + 1, w.top), line_tol)
             ELSE GroupLoop(Tail(ws), Append(lines, current), <<w>>,
                            [num |-> w.top, den |-> 1], line_tol)

\* Mutant: the cluster left open when the loop ends is not appended.
group_words_into_lines_open(ws, line_tol) ==
    IF ws = <<>> THEN <<>>
    ELSE LET lines == GroupLoop(SortedBy(ws, [i \in 1..Len(ws) |-> KeyTopX0(ws[i])]),
                                <<>>, <<>>, [num |-> 0, den |-> 1], line_tol)
         IN  SubSeq(lines, 1, Len(lines) - 1)

group_words_into_lines(ws, line_tol) ==
    IF ws = <<>> THEN <<>>
    ELSE GroupLoop(SortedBy(ws, [i \in 1..Len(ws) |-> KeyTopX0(ws[i])]),
                   <<>>, <<>>, [num |-> 0, den |-> 1], line_tol)

RECURSIVE Spaces(_)
Spaces(n) == IF n <= 0 THEN "" ELSE " " \o Spaces(n - 1)

\* "".join(parts)
RECURSIVE Join(_)
Join(parts) == IF parts = <<>> THEN "" ELSE Head(parts) \o Join(Tail(parts))

\* Mutant: the quotient truncated instead of rounded.
SpacesForGapFloor(gap, space_unit_pts, min_spaces) ==
    Max(min_spaces, gap \div Max(5, space_unit_pts))

\* n_spaces for gap > 0.
SpacesForGap(gap, space_unit_pts, min_spaces) ==
    Max(min_spaces, RoundHalfEven(gap, Max(5, space_unit_pts)))

\* Mutant: the threshold taken inclusive.
SpacesForOverlapInclusive(gap, space_unit_pts) ==
    IF 10 * gap >= -3 * space_unit_pts THEN 1 ELSE 0

\* " " if gap > -space_unit_pts * 0.3 else "", for gap <= 0.
SpacesForOverlap(gap, space_unit_pts) ==
    IF 10 * gap > -3 * space_unit_pts THEN 1 ELSE 0

\* Mutant: the reference moved to the right edge of the Word just emitted.
RunningX1Last(prev_x1, x1) == x1

\* prev_x1 = max(prev_x1, x1)
RunningX1(prev_x1, x1) == Max(prev_x1, x1)

\* The for loop of build_line_text over line_words[1:]: `acc` carries parts,
\* prev_x1, last_x1 and, for each word, the gap the loop computed.
RECURSIVE BuildLoop(_, _, _, _)
BuildLoop(ws, acc, space_unit_pts, min_spaces) ==
    IF ws = <<>> THEN acc
    ELSE LET w == Head(ws)
             gap == w.x0 - acc.prev_x1
             n == IF gap > 0
                  THEN SpacesForGap(gap, space_unit_pts, min_spaces)
                  ELSE SpacesForOverlap(gap, space_unit_pts)
         IN  BuildLoop(Tail(ws),
                 [parts |-> acc.parts \o <<Spaces(n), w.text>>,
                  gaps |-> Append(acc.gaps, gap),
                  prev_x1 |-> RunningX1(acc.prev_x1, w.x1),
                  last_x1 |-> Max(acc.last_x1, w.x1)],
                 space_unit_pts, min_spaces)

\* The representative font size, in tenths of a point.
FontSize(ws) ==
    LET withSize == SelectSeq(ws, LAMBDA w : w.size # NoSize)
        sizes == [i \in 1..Len(withSize) |-> withSize[i].size]
        hs == [i \in 1..Len(ws) |-> Max(60, ws[i].bottom - ws[i].top)]
    IN  IF sizes # <<>> THEN SortNumbers(sizes)[(Len(sizes) \div 2) + 1]
        ELSE IF hs # <<>> THEN SortNumbers(hs)[(Len(hs) \div 2) + 1]
        ELSE 100

\* Mutant: the group left in the order of the clustering sweep.
SortedLineNone(group) == group

\* Words sorted by x0, as build_line_text sorts its argument.
SortedLine(group) == SortedBy(group, [i \in 1..Len(group) |-> KeyX0(group[i])])

\* build_line_text: the tuple it returns (text, x0, x1, top, font_size),
\* with the sorted words, the parts and the gaps of its loop.  On an empty
\* group the median of the tops indexes an empty list: IndexError is raised
\* and nothing is returned.
build_line_text(group, space_unit_pts, min_spaces) ==
    IF group = <<>>
    THEN [raised |-> TRUE, text |-> "", x0 |-> 0, x1 |-> 0, top |-> 0,
          font_size |-> NoSize, sorted |-> <<>>, parts |-> <<>>, gaps |-> <<>>]
    ELSE
    LET ws == SortedLine(group)
        tops == SortNumbers([i \in 1..Len(ws) |-> ws[i].top])
        acc == BuildLoop(Tail(ws),
                   [parts |-> <<ws[1].text>>, gaps |-> <<>>,
                    prev_x1 |-> ws[1].x1, last_x1 |-> ws[1].x1],
                   space_unit_pts, min_spaces)
    IN  [raised |-> FALSE,
         text |-> Join(acc.parts), x0 |-> ws[1].x0, x1 |-> acc.last_x1,
         top |-> tops[(Len(ws) \div 2) + 1], font_size |-> FontSize(ws),
         sorted |-> ws, parts |-> acc.parts, gaps |-> acc.gaps]

\* line_text.strip() is non-empty: some part is not made of spaces only.
NonBlank(b) == \E i \in 1..Len(b.parts) : b.parts[i] # Spaces(Len(b.parts[i]))

\* extract_lines_with_positions for one page: the groups, the result of
\* build_line_text for each, and the list `out` of (text, x0, top, font_size).
extract_lines_with_positions(ws, line_tol, space_unit_pts, min_spaces) ==
    LET groups == group_words_into_lines(ws, line_tol)
        results == [i \in 1..Len(groups) |->
                       build_line_text(groups[i], space_unit_pts, min_spaces)]
        kept == SelectSeq(results, NonBlank)
    IN  [groups |-> groups, results |-> results,
         out |-> [i \in 1..Len(kept) |->
                     <<kept[i].text, kept[i].x0, kept[i].top, kept[i].font_size>>]]

(***************************************************************************)
(* The session.                                                            *)
(***************************************************************************)
NoExtract ==
    [called |-> FALSE, line_tol |-> 0, space_unit_pts |-> 0, min_spaces |-> 0,
     groups |-> <<>>, results |-> <<>>, out |-> <<>>]

NoBuilt ==
    [called |-> FALSE, raised |-> FALSE,
     space_unit_pts |-> 0, min_spaces |-> 0, text |-> "",
     x0 |-> 0, x1 |-> 0, top |-> 0, font_size |-> 0, sorted |-> <<>>,
     parts |-> <<>>, gaps |-> <<>>]

(***************************************************************************)
(* Part III - text extraction and reports.  A file of the batch folder is   *)
(* [rank, opens, pages]: the rank of its path in sorted order, whether     *)
(* fitz.open accepts it, and for each page the number of text blocks and   *)
(* of image blocks of page.get_text("dict"), the text of                   *)
(* page.get_text("text"), and whether reading the page raises.             *)
(***************************************************************************)
TextPage(text_blocks, image_blocks, text, raises) ==
    [text_blocks |-> text_blocks, image_blocks |-> image_blocks,
     text |-> text, raises |-> raises]

\* A PDF with a text layer on both pages.
FileText ==
    [rank |-> 1, opens |-> TRUE,
     pages |-> << TextPage(2, 0, "alpha", FALSE), TextPage(1, 1, "beta", FALSE) >>]

\* A PDF with a page that is only an image, and a page with text.
FileMixed ==
    [rank |-> 2, opens |-> TRUE,
     pages |-> << TextPage(0, 1, "", FALSE), TextPage(1, 0, "gamma", FALSE) >>]

\* A PDF whose second page cannot be read.
FileDamaged ==
    [rank |-> 3, opens |-> TRUE,
     pages |-> << TextPage(1, 0, "delta", FALSE), TextPage(0, 0, "", TRUE) >>]

\* A file fitz.open rejects.
FileUnreadable == [rank |-> 4, opens |-> FALSE, pages |-> <<>>]

\* A scanned PDF: images only, no text.
FileScanned ==
    [rank |-> 5, opens |-> TRUE, pages |-> << TextPage(0, 1, "", FALSE) >>]

BatchFiles == {FileText, FileMixed, FileDamaged, FileUnreadable, FileScanned}

\* The for loop of extract_text_from_pdf from page number n on; the loop
\* ends at the first page that raises, with what was gathered before it.
RECURSIVE ExtractLoop(_, _, _)
ExtractLoop(pages, n, acc) ==
    IF n > Len(pages) THEN acc
    ELSE LET page == pages[n]
         IN  IF page.raises THEN [acc EXCEPT !.raised = TRUE]
             ELSE ExtractLoop(pages, n + 1,
                      [with_text |-> IF page.text # ""
                                     THEN acc.with_text \cup {n}
                                     ELSE acc.with_text,
                       ocr_mode |-> acc.ocr_mode
                                    \/ (page.image_blocks > 0
                                        /\ page.text_blocks = 0),
                       raised |-> FALSE])

\* extract_text_from_pdf: the page numbers of text_by_page (its values are
\* the texts of these pages), ocr_mode, and whether the except clause ran.
\* It never raises.
extract_text_from_pdf(file) ==
    IF ~file.opens
    THEN [with_text |-> {}, ocr_mode |-> FALSE, raised |-> TRUE]
    ELSE ExtractLoop(file.pages, 1,
             [with_text |-> {}, ocr_mode |-> FALSE, raised |-> FALSE])

\* create_html_from_text: the report written for a file, with the
\* extraction method it names and whether it carries the warning block.
create_html_from_text(file, with_text, ocr_mode) ==
    [rank |-> file.rank, pages |-> with_text, ocr_mode |-> ocr_mode,
     method |-> IF ocr_mode THEN "OCR" ELSE "Text layer",
     warning |-> (ocr_mode = FALSE)]

\* show_unredacted_results: the content of the results window.
show_unredacted_results(with_text, ocr_mode) ==
    [called |-> TRUE, pages |-> with_text, ocr_mode |-> ocr_mode,
     warning |-> (with_text # {} /\ ocr_mode = FALSE)]

NoBatch ==
    [running |-> FALSE, done |-> FALSE, pdf_files |-> <<>>, i |-> 0,
     html_files |-> <<>>, processed_count |-> 0, error_count |-> 0,
     log |-> <<>>, reports |-> <<>>]

NoShown == [called |-> FALSE, pages |-> {}, ocr_mode |-> FALSE, warning |-> FALSE]

\* The file being prepared: one page, nothing painted on it yet.
BlankDisk == [name |-> "d.pdf", pages |-> << Page("d.pdf", 0, <<>>) >>]

\* The session fields as a handler found them.
Snapshot ==
    [pdf_doc |-> pdf_doc, current_page |-> current_page,
     selected_box |-> selected_box, all_boxes |-> all_boxes,
     calls |-> nReplace]

NoFailure ==
    [where |-> "none", step |-> "none", surfaced |-> "none",
     pre |-> [pdf_doc |-> NoDoc, current_page |-> 0, selected_box |-> NoBox,
              all_boxes |-> <<>>, calls |-> 0]]

\* No handler invoked yet.
NoOp ==
    [name |-> "none", file |-> "None", pt |-> <<0, 0>>, text |-> "",
     pre |-> [pdf_doc |-> NoDoc, current_page |-> 0, selected_box |-> NoBox,
              all_boxes |-> <<>>, calls |-> 0]]

\* The handler `name` was invoked with the file chosen in the dialog, the
\* point clicked or the text typed.
Invoked(name, file, pt, text) ==
    lastOp' = [name |-> name, file |-> file, pt |-> pt, text |-> text,
               pre |-> Snapshot]

Init ==
    /\ disk = BlankDisk
    /\ failure = NoFailure
    /\ batch = NoBatch
    /\ shown = NoShown
    /\ lastOp = NoOp
    /\ pdf_doc = NoDoc
    /\ current_page = 0
    /\ all_boxes = <<>>
    /\ selected_box = NoBox
    /\ thinDark \in BOOLEAN
    /\ zoom = InitialZoom
    /\ canvas_boxes = <<>>
    /\ nReplace = 0
    /\ nZoom = 0
    /\ lastCall = NoCall
    /\ words = <<>>
    /\ extracted = NoExtract
    /\ line_words = <<>>
    /\ built = NoBuilt

\* open_pdf: the file dialog returns "" when cancelled (Cancelled), else
\* the file is opened and its first page loaded.
Cancelled == NoDoc

open_pdf(f) ==
    IF f = Cancelled
    THEN UNCHANGED guiVars
    ELSE /\ pdf_doc' = f
         /\ current_page' = 0
         /\ selected_box' = NoBox
         /\ all_boxes' = load_page(f, 0, all_boxes)
         /\ canvas_boxes' =
               load_page_drawn(f, all_boxes', NoBox, zoom, canvas_boxes)
         /\ UNCHANGED <<thinDark, zoom, nReplace, nZoom, lastCall>>

prev_page ==
    IF Loaded(pdf_doc) /\ current_page > 0
    THEN /\ current_page' = current_page - 1
         /\ all_boxes' = load_page(pdf_doc, current_page - 1, all_boxes)
         /\ canvas_boxes' =
               load_page_drawn(pdf_doc, all_boxes', selected_box, zoom,
                               canvas_boxes)
         /\ UNCHANGED <<pdf_doc, selected_box, thinDark, zoom, nReplace,
                        nZoom, lastCall>>
    ELSE UNCHANGED guiVars

next_page ==
    IF Loaded(pdf_doc) /\ current_page < Len(pdf_doc.pages) - 1
    THEN /\ current_page' = current_page + 1
         /\ all_boxes' = load_page(pdf_doc, current_page + 1, all_boxes)
         /\ canvas_boxes' =
               load_page_drawn(pdf_doc, all_boxes', selected_box, zoom,
                               canvas_boxes)
         /\ UNCHANGED <<pdf_doc, selected_box, thinDark, zoom, nReplace,
                        nZoom, lastCall>>
    ELSE UNCHANGED guiVars

\* on_canvas_click at the page point pt = (canvas_x / zoom, canvas_y / zoom),
\* given in half points: the first box in list order that contains it is
\* selected and draw_boxes is called.
on_canvas_click(pt) ==
    LET inside(i) ==
            LET rect == all_boxes[i].rect
            IN  rect[1] <= pt[1] /\ pt[1] <= rect[3]
                /\ rect[2] <= pt[2] /\ pt[2] <= rect[4]
        found == {i \in 1..Len(all_boxes) : inside(i)}
    IN  IF all_boxes = <<>> \/ found = {}
        THEN UNCHANGED guiVars
        ELSE /\ selected_box' =
                    all_boxes[CHOOSE i \in found : \A j \in found : i <= j]
             /\ canvas_boxes' = draw_boxes(all_boxes, selected_box', zoom)
             /\ UNCHANGED <<pdf_doc, current_page, all_boxes, thinDark, zoom,
                            nReplace, nZoom, lastCall>>

\* Mutant: the empty text accepted.
FalsyNever(text) == FALSE

\* "if not text": None (dialog cancelled) and "" are both falsy.
Falsy(text) == text = ""

\* replace_boxes with `text` entered in the dialog ("" also stands for a
\* cancelled dialog: both are falsy).
replace_boxes(text) ==
    IF ~Loaded(pdf_doc) \/ selected_box = NoBox \/ Falsy(text)
    THEN UNCHANGED guiVars
    ELSE /\ nReplace < MaxReplace
         /\ UNCHANGED <<current_page, selected_box, thinDark, zoom, nZoom>>
         /\ LET r == apply_replacements(pdf_doc, current_page, all_boxes,
                         selected_box.width, selected_box.height, text,
                         DefaultTolerance)
                boxes == load_page(r.doc, current_page, all_boxes)
            IN  /\ pdf_doc' = r.doc
                /\ all_boxes' = boxes
                /\ canvas_boxes' =
                      load_page_drawn(r.doc, boxes, selected_box, zoom,
                                      canvas_boxes)
                /\ lastCall' =
                      [called |-> TRUE, target_width |-> selected_box.width,
                       target_height |-> selected_box.height, text |-> text,
                       tolerance |-> DefaultTolerance, count |-> r.count,
                       hits |-> r.hits, boxes |-> all_boxes,
                       page |-> current_page, pre_doc |-> pdf_doc,
                       post_doc |-> r.doc, post_page |-> current_page',
                       post_boxes |-> boxes]
         /\ nReplace' = nReplace + 1

Next ==
    \/ /\ \E f \in Files \cup {Cancelled} : open_pdf(f)
       /\ UNCHANGED <<lineVars, auxVars>>
    \/ /\ prev_page
       /\ UNCHANGED <<lineVars, auxVars>>
    \/ /\ next_page
       /\ UNCHANGED <<lineVars, auxVars>>
    \/ /\ \E pt \in ClickPoints : on_canvas_click(pt)
       /\ UNCHANGED <<lineVars, auxVars>>
    \/ /\ \E text \in Texts : replace_boxes(text)
       /\ UNCHANGED <<lineVars, auxVars>>

Spec == Init /\ [][Next]_vars

\* The start of the runs that do not render a replaced page.
InitLines == Init /\ thinDark = FALSE

(***************************************************************************)
(* The session with the zoom operations.                                   *)
(***************************************************************************)
\* zoom_in and zoom_out set self.zoom and call load_page, which returns at
\* once when no document is loaded.
zoom_in ==
    /\ nZoom < MaxZoom
    /\ nZoom' = nZoom + 1
    /\ zoom' = ZoomedIn(zoom)
    /\ all_boxes' = load_page(pdf_doc, current_page, all_boxes)
    /\ canvas_boxes' =
          load_page_drawn(pdf_doc, all_boxes', selected_box, zoom', canvas_boxes)
    /\ UNCHANGED <<pdf_doc, current_page, selected_box, thinDark, nReplace,
                   lastCall>>

zoom_out ==
    /\ nZoom < MaxZoom
    /\ nZoom' = nZoom + 1
    /\ zoom' = ZoomedOut(zoom)
    /\ all_boxes' = load_page(pdf_doc, current_page, all_boxes)
    /\ canvas_boxes' =
          load_page_drawn(pdf_doc, all_boxes', selected_box, zoom', canvas_boxes)
    /\ UNCHANGED <<pdf_doc, current_page, selected_box, thinDark, nReplace,
                   lastCall>>

\* zoom_fit_width with canvas.winfo_width() = canvas_width.
zoom_fit_width(canvas_width) ==
    IF ~Loaded(pdf_doc)
    THEN UNCHANGED guiVars
    ELSE /\ nZoom < MaxZoom
         /\ nZoom' = nZoom + 1
         /\ zoom' = ZoomedToFit(canvas_width, pdf_doc.pages[current_page + 1])
         /\ all_boxes' = load_page(pdf_doc, current_page, all_boxes)
         /\ canvas_boxes' =
               load_page_drawn(pdf_doc, all_boxes', selected_box, zoom',
                               canvas_boxes)
         /\ UNCHANGED <<pdf_doc, current_page, selected_box, thinDark,
                        nReplace, lastCall>>

SessionFiles == {DocB, DocC}

SessionPoints == {<<20, 20>>, <<120, 60>>, <<350, 60>>}

SessionTexts == {"", "X"}

\* Widths of the canvas: before it is mapped, and of a large window.
CanvasWidths == {1, 2000}

NextSession ==
    \/ /\ \E f \in SessionFiles \cup {Cancelled} :
             open_pdf(f) /\ Invoked("open_pdf", f.name, <<0, 0>>, "")
       /\ UNCHANGED <<lineVars, disk, failure, batch, shown>>
    \/ /\ prev_page /\ Invoked("prev_page", "None", <<0, 0>>, "")
       /\ UNCHANGED <<lineVars, disk, failure, batch, shown>>
    \/ /\ next_page /\ Invoked("next_page", "None", <<0, 0>>, "")
       /\ UNCHANGED <<lineVars, disk, failure, batch, shown>>
    \/ /\ \E pt \in SessionPoints :
             on_canvas_click(pt) /\ Invoked("on_canvas_click", "None", pt, "")
       /\ UNCHANGED <<lineVars, disk, failure, batch, shown>>
    \/ /\ \E text \in SessionTexts :
             replace_boxes(text) /\ Invoked("replace_boxes", "None", <<0, 0>>, text)
       /\ UNCHANGED <<lineVars, disk, failure, batch, shown>>
    \/ /\ zoom_in /\ Invoked("zoom_in", "None", <<0, 0>>, "")
       /\ UNCHANGED <<lineVars, disk, failure, batch, shown>>
    \/ /\ zoom_out /\ Invoked("zoom_out", "None", <<0, 0>>, "")
       /\ UNCHANGED <<lineVars, disk, failure, batch, shown>>
    \/ /\ \E canvas_width \in CanvasWidths :
             /\ zoom_fit_width(canvas_width)
             /\ Invoked("zoom_fit_width", "None", <<0, 0>>, "")
       /\ UNCHANGED <<lineVars, disk, failure, batch, shown>>

SpecSession == Init /\ [][NextSession]_vars

(***************************************************************************)
(* The session with library calls that raise.  A run is followed up to its *)
(* first exception.                                                        *)
(***************************************************************************)
\* Where open_pdf can raise: in fitz.open; in load_page at
\* self.pdf_doc[self.current_page]; in find_boxes_on_page, which has reset
\* self.all_boxes by then; in load_page after find_boxes_on_page returned.
OpenSteps == {"open", "page", "detect", "display"}

\* open_pdf when the call at `step` raises: the except clause shows the
\* error box; what was assigned before the raise stays assigned.
open_pdf_raises(f, step) ==
    /\ f # Cancelled
    /\ step # "open" => Loaded(f)
    /\ failure' = [where |-> "open_pdf", step |-> step,
                   surfaced |-> "messagebox", pre |-> Snapshot]
    /\ IF step = "open"
       THEN UNCHANGED <<pdf_doc, current_page, selected_box, all_boxes>>
       ELSE /\ pdf_doc' = f
            /\ current_page' = 0
            /\ selected_box' = NoBox
            /\ all_boxes' = CASE step = "page" -> all_boxes
                               [] step = "detect" -> <<>>
                               [] step = "display" -> load_page(f, 0, all_boxes)
    /\ UNCHANGED <<thinDark, zoom, canvas_boxes, nReplace, nZoom, lastCall>>

\* Where apply_replacements can raise: rendering the page to the image;
\* and, when count > 0, encoding the image, building the temporary page,
\* delete_page, insert_pdf.
ReplaceSteps == {"render", "encode", "temp", "delete", "insert"}

\* The document apply_replacements leaves when the call at `step` raises:
\* nothing is undone, so after delete_page the page stays deleted.
apply_replacements_raises(doc, cur, step) ==
    IF step = "insert"
    THEN [doc EXCEPT !.pages = DeletePage(@, cur)]
    ELSE doc

\* replace_boxes when apply_replacements raises at `step`: the exception
\* leaves replace_boxes, so load_page is not called.
replace_boxes_raises(text, step) ==
    /\ Loaded(pdf_doc) /\ selected_box # NoBox /\ text # ""
    /\ step # "render" =>
          apply_replacements(pdf_doc, current_page, all_boxes,
              selected_box.width, selected_box.height, text,
              DefaultTolerance).count > 0
    /\ failure' = [where |-> "replace_boxes", step |-> step,
                   surfaced |-> "exception", pre |-> Snapshot]
    /\ pdf_doc' = apply_replacements_raises(pdf_doc, current_page, step)
    /\ UNCHANGED <<current_page, all_boxes, selected_box, thinDark, zoom,
                   canvas_boxes, nReplace, nZoom, lastCall>>

FailFiles == {DocB, DocC}

FailPoints == {<<20, 20>>, <<120, 60>>, <<310, 105>>, <<350, 60>>}

NextFail ==
    \/ /\ failure = NoFailure
       /\ \E f \in FailFiles :
             open_pdf(f) /\ Invoked("open_pdf", f.name, <<0, 0>>, "")
       /\ UNCHANGED <<lineVars, disk, failure, batch, shown>>
    \/ /\ failure = NoFailure
       /\ prev_page /\ Invoked("prev_page", "None", <<0, 0>>, "")
       /\ UNCHANGED <<lineVars, disk, failure, batch, shown>>
    \/ /\ failure = NoFailure
       /\ next_page /\ Invoked("next_page", "None", <<0, 0>>, "")
       /\ UNCHANGED <<lineVars, disk, failure, batch, shown>>
    \/ /\ failure = NoFailure
       /\ \E pt \in FailPoints :
             on_canvas_click(pt) /\ Invoked("on_canvas_click", "None", pt, "")
       /\ UNCHANGED <<lineVars, disk, failure, batch, shown>>
    \/ /\ failure = NoFailure
       /\ replace_boxes("X") /\ Invoked("replace_boxes", "None", <<0, 0>>, "X")
       /\ UNCHANGED <<lineVars, disk, failure, batch, shown>>
    \/ /\ failure = NoFailure
       /\ \E f \in FailFiles, step \in OpenSteps :
             open_pdf_raises(f, step) /\ Invoked("open_pdf", f.name, <<0, 0>>, "")
       /\ UNCHANGED <<lineVars, disk, batch, shown>>
    \/ /\ failure = NoFailure
       /\ \E step \in ReplaceSteps :
             /\ replace_boxes_raises("X", step)
             /\ Invoked("replace_boxes", "None", <<0, 0>>, "X")
       /\ UNCHANGED <<lineVars, disk, batch, shown>>

SpecFail == Init /\ [][NextFail]_vars

(***************************************************************************)
(* The batch run of auto_unredact over a folder, and unredact_all.         *)
(***************************************************************************)
\* The files of a folder in the order os.walk lists them.
RECURSIVE Listed(_)
Listed(folder) ==
    IF folder = {} THEN <<>>
    ELSE LET file == CHOOSE f \in folder : TRUE
         IN  <<file>> \o Listed(folder \ {file})

\* pdf_files after pdf_files.sort().
SortedFiles(folder) ==
    LET listed == Listed(folder)
    IN  SortedBy(listed, [k \in 1..Len(listed) |-> <<listed[k].rank, 0>>])

\* auto_unredact up to its first loop: with no PDF in the folder it shows an
\* error and returns.
auto_unredact_start(folder) ==
    /\ ~batch.running
    /\ batch' = IF folder = {} THEN batch
                ELSE [NoBatch EXCEPT !.running = TRUE,
                                     !.pdf_files = SortedFiles(folder)]
    /\ UNCHANGED <<guiVars, lineVars, disk, failure, shown, lastOp>>

\* Which call of the try block of an iteration raises, if any: the status
\* label update before the extraction, create_html_from_text, or the
\* progress update after processed_count += 1.
Raises == {"none", "status", "html", "progress"}

\* One iteration of "PASS 1" for pdf_files[i]; `log` keeps what the
\* iteration did with the file.
auto_unredact_iteration(raises) ==
    /\ batch.running
    /\ batch.i < Len(batch.pdf_files)
    /\ LET file == batch.pdf_files[batch.i + 1]
           x == extract_text_from_pdf(file)
           entry(extract_raised, report_raised, processed, errors) ==
               [rank |-> file.rank, extract_raised |-> extract_raised,
                report_raised |-> report_raised, processed |-> processed,
                errors |-> errors]
           report == create_html_from_text(file, x.with_text, x.ocr_mode)
       IN  batch' =
             IF raises = "status"
             THEN [batch EXCEPT !.i = @ + 1, !.error_count = @ + 1,
                                !.log = Append(@, entry(FALSE, FALSE, 0, 1))]
             ELSE IF x.with_text = {}
             THEN [batch EXCEPT !.i = @ + 1, !.error_count = @ + 1,
                                !.log = Append(@, entry(x.raised, FALSE, 0, 1))]
             ELSE IF raises = "html"
             THEN [batch EXCEPT !.i = @ + 1, !.error_count = @ + 1,
                                !.log = Append(@, entry(x.raised, TRUE, 0, 1))]
             ELSE [batch EXCEPT
                      !.i = @ + 1,
                      !.html_files = Append(@, file.rank),
                      !.reports = Append(@, report),
                      !.processed_count = @ + 1,
                      !.error_count = IF raises = "progress" THEN @ + 1 ELSE @,
                      !.log = Append(@, entry(x.raised, FALSE, 1,
                                  IF raises = "progress" THEN 1 ELSE 0))]
    /\ UNCHANGED <<guiVars, lineVars, disk, failure, shown, lastOp>>

\* auto_unredact after the loop: html_files.sort() and the summary.
auto_unredact_finish ==
    /\ batch.running
    /\ batch.i = Len(batch.pdf_files)
    /\ batch' = [batch EXCEPT !.running = FALSE, !.done = TRUE,
                              !.html_files = SortNumbers(@)]
    /\ UNCHANGED <<guiVars, lineVars, disk, failure, shown, lastOp>>

\* unredact_all on a loaded document with the pages of `file`: the same
\* scan as extract_text_from_pdf without a try, then the results window.
unredact_all(file) ==
    /\ ~batch.running
    /\ file.opens
    /\ LET x == ExtractLoop(file.pages, 1,
                    [with_text |-> {}, ocr_mode |-> FALSE, raised |-> FALSE])
       IN  shown' = IF x.raised THEN shown
                    ELSE show_unredacted_results(x.with_text, x.ocr_mode)
    /\ UNCHANGED <<guiVars, lineVars, disk, failure, batch, lastOp>>

NextBatch ==
    \/ \E folder \in SUBSET BatchFiles :
          /\ Cardinality(folder) <= MaxBatch
          /\ auto_unredact_start(folder)
    \/ \E raises \in Raises : auto_unredact_iteration(raises)
    \/ auto_unredact_finish
    \/ \E file \in BatchFiles : unredact_all(file)

SpecBatch == InitLines /\ [][NextBatch]_vars

(***************************************************************************)
(* The line reconstructor run on the Words of one page.                    *)
(***************************************************************************)
Letters == <<"a", "b", "c", "d", "e", "f">>

Tops == {100, 105, 110, 200}

X0s == {0, 50}

LineTols == {0, 8, 20}

SpaceUnits == {30, 3}

MinSpaces == {1, 2}

\* page.extract_words(...) yields one more Word.
ExtractWord(top, x0) ==
    /\ ~extracted.called
    /\ Len(words) < MaxWords
    /\ words' = Append(words,
                    [text |-> Letters[Len(words) + 1], x0 |-> x0, x1 |-> x0 + 40,
                     top |-> top, bottom |-> top + 100, size |-> NoSize])
    /\ UNCHANGED <<extracted, line_words, built, guiVars, auxVars>>

CallExtractLines(line_tol, space_unit_pts, min_spaces) ==
    /\ ~extracted.called
    /\ LET r == extract_lines_with_positions(words, line_tol, space_unit_pts,
                                             min_spaces)
       IN  extracted' =
              [called |-> TRUE, line_tol |-> line_tol,
               space_unit_pts |-> space_unit_pts, min_spaces |-> min_spaces,
               groups |-> r.groups, results |-> r.results, out |-> r.out]
    /\ UNCHANGED <<words, line_words, built, guiVars, auxVars>>

NextLines ==
    \/ \E top \in Tops, x0 \in X0s : ExtractWord(top, x0)
    \/ \E line_tol \in LineTols : CallExtractLines(line_tol, 30, 1)

SpecLines == InitLines /\ [][NextLines]_vars

(***************************************************************************)
(* build_line_text run on one group of Words.                              *)
(***************************************************************************)
LineX0s == {0, 90, 91, 100, 110, 175, 180, 190}

Widths == {100, 300}

\* One more Word of the group.
GroupWord(x0, wd) ==
    /\ ~built.called
    /\ Len(line_words) < MaxLineWords
    /\ line_words' = Append(line_words,
                         [text |-> Letters[Len(line_words) + 1], x0 |-> x0,
                          x1 |-> x0 + wd, top |-> 100, bottom |-> 200,
                          size |-> NoSize])
    /\ UNCHANGED <<words, extracted, built, guiVars, auxVars>>

CallBuildLineText(space_unit_pts, min_spaces) ==
    /\ ~built.called
    /\ line_words # <<>>
    /\ LET r == build_line_text(line_words, space_unit_pts, min_spaces)
       IN  built' =
              [called |-> TRUE, raised |-> r.raised,
               space_unit_pts |-> space_unit_pts,
               min_spaces |-> min_spaces, text |-> r.text, x0 |-> r.x0,
               x1 |-> r.x1, top |-> r.top, font_size |-> r.font_size,
               sorted |-> r.sorted, parts |-> r.parts, gaps |-> r.gaps]
    /\ UNCHANGED <<words, extracted, line_words, guiVars, auxVars>>

NextBuild ==
    \/ \E x0 \in LineX0s, wd \in Widths : GroupWord(x0, wd)
    \/ \E u \in SpaceUnits, m \in MinSpaces : CallBuildLineText(u, m)

SpecBuild == InitLines /\ [][NextBuild]_vars

(***************************************************************************)
(* build_line_text run on a group of Words with and without sizes, and on  *)
(* the empty group.                                                        *)
(***************************************************************************)
WordSizes == {NoSize, 80, 100, 120}

WordHeights == {40, 60, 90, 120}

\* One more Word of the group, to the left of the Words before it.
SizedWord(size, ht) ==
    /\ ~built.called
    /\ Len(line_words) < MaxLineWords
    /\ line_words' = Append(line_words,
                         [text |-> Letters[Len(line_words) + 1],
                          x0 |-> 1000 - 100 * Len(line_words),
                          x1 |-> 1040 - 100 * Len(line_words),
                          top |-> 100, bottom |-> 100 + ht, size |-> size])
    /\ UNCHANGED <<words, extracted, built, guiVars, auxVars>>

\* build_line_text called on the group as it is, also when it is empty.
CallBuildLineTextAny(space_unit_pts, min_spaces) ==
    /\ ~built.called
    /\ LET r == build_line_text(line_words, space_unit_pts, min_spaces)
       IN  built' =
              [called |-> TRUE, raised |-> r.raised,
               space_unit_pts |-> space_unit_pts,
               min_spaces |-> min_spaces, text |-> r.text, x0 |-> r.x0,
               x1 |-> r.x1, top |-> r.top, font_size |-> r.font_size,
               sorted |-> r.sorted, parts |-> r.parts, gaps |-> r.gaps]
    /\ UNCHANGED <<words, extracted, line_words, guiVars, auxVars>>

NextSizes ==
    \/ \E size \in WordSizes, ht \in WordHeights : SizedWord(size, ht)
    \/ CallBuildLineTextAny(30, 1)

SpecSizes == InitLines /\ [][NextSizes]_vars

(***************************************************************************)
(* Detection run on a prepared file: fill primitives are painted on the    *)
(* page of the file, apart from each other, and the file is opened.        *)
(***************************************************************************)
\* Rects <<x, y, w, h>> of the 600 x 400 pixel render, pairwise apart.
FillRects ==
    {<<0, 0, 20, 11>>, <<30, 0, 21, 10>>, <<60, 0, 21, 11>>, <<100, 0, 12, 12>>,
     <<0, 20, 480, 30>>, <<0, 60, 479, 30>>, <<500, 20, 30, 320>>,
     <<540, 20, 30, 319>>, <<250, 120, 201, 41>>}

FillColors ==
    {NoColor, <<50, 0, 0>>, <<29, 29, 29>>, <<10, 10, 10>>, <<100, 100, 100>>}

\* One more fill primitive painted on the page of the file.
DrawFill(rect, color) ==
    /\ Len(disk.pages[1].fills) < MaxFills
    /\ \A k \in 1..Len(disk.pages[1].fills) : disk.pages[1].fills[k].rect # rect
    /\ disk' = [disk EXCEPT !.pages[1].fills =
                    Append(@, [rect |-> rect, color |-> color])]
    /\ UNCHANGED <<guiVars, lineVars, failure, batch, shown, lastOp>>

NextDetect ==
    \/ \E rect \in FillRects, color \in FillColors : DrawFill(rect, color)
    \/ /\ open_pdf(disk)
       /\ UNCHANGED <<lineVars, auxVars>>

SpecDetect == InitLines /\ [][NextDetect]_vars

(***************************************************************************)
(* Properties of apply_replacements, stated on the record of its last call. *)
(***************************************************************************)
\* The page the last call worked on, before and after the call.
PrePage == lastCall.pre_doc.pages[lastCall.page + 1]

PostPage == lastCall.post_doc.pages[lastCall.page + 1]

\* Box i of the detection list the last call used lies in the class of the
\* call's reference: both differences at most the tolerance, in either
\* direction.
InClass(i) ==
    LET b == lastCall.boxes[i]
    IN  /\ lastCall.target_width - lastCall.tolerance <= b.width
        /\ b.width <= lastCall.target_width + lastCall.tolerance
        /\ lastCall.target_height - lastCall.tolerance <= b.height
        /\ b.height <= lastCall.target_height + lastCall.tolerance

\* The contour a box was detected from.
ContourOf(b) ==
    <<b.rect[1], b.rect[2], b.rect[3] - b.rect[1], b.rect[4] - b.rect[2]>>

OnPage(c, page) ==
    \/ \E k \in 1..Len(page.dark) : page.dark[k] = c
    \/ \E k \in 1..Len(page.thin) : page.thin[k] = c

\* C1: apply_replacements treats a Region of the detection list as matching
\* if and only if its width and its height are both within the tolerance of
\* the reference, a difference of exactly the tolerance included; the
\* reference is the fixed (W, H) of the call for every Region.
C1_MatchInclusive ==
    lastCall.called =>
        \A i \in 1..Len(lastCall.boxes) : (i \in lastCall.hits) <=> InClass(i)

\* A call with the default tolerance 2.0 that matched a Region whose width
\* differs from the reference by exactly 2.0 and left another unmatched.
C1_Witness ==
    /\ lastCall.called
    /\ lastCall.tolerance = 20
    /\ \E i \in lastCall.hits :
          Abs(lastCall.boxes[i].width - lastCall.target_width) = 20
    /\ \E i \in 1..Len(lastCall.boxes) : i \notin lastCall.hits

\* C2: apply_replacements returns the number of Regions of the detection
\* list that are in the class, draws the text over each of them, and leaves
\* every other Region of the list as it was on the page.
C2_CountAndDraw ==
    lastCall.called =>
        /\ lastCall.count = Cardinality({i \in 1..Len(lastCall.boxes) : InClass(i)})
        /\ \A i \in 1..Len(lastCall.boxes) :
              LET b == lastCall.boxes[i]
                  drawn(l) == l.rect = b.rect /\ l.text = lastCall.text
              IN  IF InClass(i)
                  THEN /\ \E l \in PostPage.labels : drawn(l)
                       /\ ~OnPage(ContourOf(b), PostPage) \/ ContourOf(b) = Outline(b)
                  ELSE /\ \A l \in PostPage.labels : l.rect # b.rect
                       /\ OnPage(ContourOf(b), PostPage)

\* The page with two 100x20 Regions and one 50x10 Region, class 100x20, text
\* "REDACTED": the call returned 2.
C2_Witness ==
    /\ lastCall.called
    /\ lastCall.count = 2
    /\ lastCall.text = "REDACTED"
    /\ lastCall.target_width = 1000 /\ lastCall.target_height = 200
    /\ Len(lastCall.boxes) = 3
    /\ \E i \in 1..3 : lastCall.boxes[i].width = 500 /\ lastCall.boxes[i].height = 100
    /\ Cardinality({i \in 1..3 : lastCall.boxes[i].width = 1000
                                  /\ lastCall.boxes[i].height = 200}) = 2

\* C3: when no Region of the detection list matches, apply_replacements
\* returns 0 and leaves the document, its pages and current_page unchanged.
C3_NoMatchNoMutation ==
    (lastCall.called /\ \A i \in 1..Len(lastCall.boxes) : ~InClass(i)) =>
        /\ lastCall.count = 0
        /\ lastCall.post_doc = lastCall.pre_doc
        /\ lastCall.post_page = lastCall.page

\* A call on a page that has Regions, none of them in the class.
C3_Witness ==
    /\ lastCall.called
    /\ lastCall.boxes # <<>>
    /\ \A i \in 1..Len(lastCall.boxes) : ~InClass(i)
    /\ lastCall.count = 0

\* C4: when at least one Region was replaced, the document has as many
\* pages as before, every other page is at its index unchanged, the page at
\* the index of the replaced page is an image-backed page of the same width
\* and height that stands for the same original page, and current_page is
\* unchanged.
C4_PageKeepsPlace ==
    (lastCall.called /\ lastCall.count > 0) =>
        /\ Len(lastCall.post_doc.pages) = Len(lastCall.pre_doc.pages)
        /\ \A j \in 1..Len(lastCall.pre_doc.pages) :
              j # lastCall.page + 1 =>
                  lastCall.post_doc.pages[j] = lastCall.pre_doc.pages[j]
        /\ PostPage.image
        /\ PostPage.orig = PrePage.orig
        /\ PostPage.w = PrePage.w /\ PostPage.h = PrePage.h
        /\ lastCall.post_page = lastCall.page

\* A replacement on the last page of a document of several pages.
C4_Witness ==
    /\ lastCall.called
    /\ lastCall.count > 0
    /\ lastCall.page > 0
    /\ lastCall.page = Len(lastCall.pre_doc.pages) - 1

(***************************************************************************)
(* Properties of the line reconstructor, stated on the record of the last  *)
(* extract_lines_with_positions call.                                      *)
(***************************************************************************)
RECURSIVE Flatten(_)
Flatten(groups) ==
    IF groups = <<>> THEN <<>> ELSE Head(groups) \o Flatten(Tail(groups))

RECURSIVE SumTops(_)
SumTops(ws) == IF ws = <<>> THEN 0 ELSE Head(ws).top + SumTops(Tail(ws))

\* |top - mean of the tops of ws| <= tol, for a non-empty ws.
WithinOfMean(top, ws, tol) ==
    LET d == Len(ws) * top - SumTops(ws)
    IN  d <= Len(ws) * tol /\ -d <= Len(ws) * tol

PosIn(ws, w) == CHOOSE k \in 1..Len(ws) : ws[k] = w

\* The number of places of the groups g that hold Word w.
Occurrences(g, w) ==
    Cardinality({<<i, k>> \in (1..Len(g)) \X (1..Len(words)) :
                    k <= Len(g[i]) /\ g[i][k] = w})

\* C21: group_words_into_lines partitions its input: every Word of the
\* input is in exactly one group at exactly one place, no group is empty,
\* the groups laid end to end are the Words in (top, x0) order (Words with
\* equal keys in input order), and an empty input gives an empty list.
C21_Partition ==
    extracted.called =>
        LET g == extracted.groups
            flat == Flatten(g)
        IN  /\ \A n \in 1..Len(words) : Occurrences(g, words[n]) = 1
            /\ Len(flat) = Len(words)
            /\ \A i \in 1..Len(g) : g[i] # <<>>
            /\ \A k \in 2..Len(flat) :
                  \/ flat[k - 1].top < flat[k].top
                  \/ /\ flat[k - 1].top = flat[k].top
                     /\ flat[k - 1].x0 < flat[k].x0
                  \/ /\ flat[k - 1].top = flat[k].top
                     /\ flat[k - 1].x0 = flat[k].x0
                     /\ PosIn(words, flat[k - 1]) < PosIn(words, flat[k])
            /\ words = <<>> => g = <<>>

\* Four Words given out of (top, x0) order, two of them with equal keys,
\* clustered into more than one group with a group of several Words.
C21_Witness ==
    /\ extracted.called
    /\ Len(words) = 4
    /\ \E k \in 2..4 : words[k].top < words[k - 1].top
    /\ \E j, k \in 1..4 : j < k /\ words[j].top = words[k].top
                               /\ words[j].x0 = words[k].x0
    /\ Len(extracted.groups) >= 2
    /\ \E i \in 1..Len(extracted.groups) : Len(extracted.groups[i]) >= 2

\* The empty Word list clustered: no group, no error.
C21_WitnessEmpty ==
    extracted.called /\ words = <<>> /\ extracted.groups = <<>>

\* The text of a Line is the texts of its Words in the order ws, with the
\* separators between them.
TextInOrder(r, ws) ==
    /\ Len(r.parts) = 2 * Len(ws) - 1
    /\ \A k \in 1..Len(ws) : r.parts[2 * k - 1] = ws[k].text
    /\ r.text = Join(r.parts)

\* C10 as stated: in every Line the Words appear strictly left to right,
\* each x0 greater than the one before, and the Line's x0 is the smallest x0
\* of its cluster.
C10_StrictLeftToRight ==
    extracted.called =>
        \A i \in 1..Len(extracted.results) :
            LET r == extracted.results[i]
            IN  /\ TextInOrder(r, r.sorted)
                /\ \A k \in 2..Len(r.sorted) : r.sorted[k - 1].x0 < r.sorted[k].x0
                /\ \A k \in 1..Len(extracted.groups[i]) :
                      r.x0 <= extracted.groups[i][k].x0

\* C10 as amended: in every Line the Words appear left to right by
\* non-decreasing x0, Words of equal x0 in the order of the clustering sweep,
\* whatever order the sweep delivered the cluster in, and the Line's x0 is
\* the smallest x0 of its cluster.
C10_LeftToRight ==
    extracted.called =>
        \A i \in 1..Len(extracted.results) :
            LET r == extracted.results[i]
                g == extracted.groups[i]
            IN  /\ TextInOrder(r, r.sorted)
                /\ Len(r.sorted) = Len(g)
                /\ {r.sorted[k] : k \in 1..Len(g)} = {g[k] : k \in 1..Len(g)}
                /\ \A k \in 2..Len(r.sorted) :
                      \/ r.sorted[k - 1].x0 < r.sorted[k].x0
                      \/ /\ r.sorted[k - 1].x0 = r.sorted[k].x0
                         /\ PosIn(g, r.sorted[k - 1]) < PosIn(g, r.sorted[k])
                /\ \E k \in 1..Len(g) : r.x0 = g[k].x0
                /\ \A k \in 1..Len(g) : r.x0 <= g[k].x0

\* A cluster the sweep delivered out of x0 order, which build_line_text
\* re-sorted.
C10_Witness ==
    /\ extracted.called
    /\ \E i \in 1..Len(extracted.results) :
          /\ Len(extracted.groups[i]) >= 2
          /\ extracted.results[i].sorted # extracted.groups[i]

(***************************************************************************)
(* Properties of build_line_text, stated on the record of its last call.   *)
(***************************************************************************)
\* The separator emitted before Word k + 1 of the sorted line.
Separator(k) == built.parts[2 * k]

\* C7: before a Word whose gap is positive the separator is n spaces, where
\* n is the larger of minSpaces and an integer nearest to
\* gap / max(0.5, spaceUnit); so n >= 1 when minSpaces >= 1, and a gap of 9
\* with spaceUnit 3.0 and minSpaces 1 gives 3 spaces.  The gap of the second
\* Word is its x0 less the x1 of the first.
C7_PositiveGap ==
    built.called =>
        /\ Len(built.gaps) = Len(built.sorted) - 1
        /\ Len(built.sorted) >= 2 =>
              built.gaps[1] = built.sorted[2].x0 - built.sorted[1].x1
        /\ \A k \in 1..Len(built.gaps) :
              built.gaps[k] > 0 =>
                  LET gap == built.gaps[k]
                      u == IF built.space_unit_pts < 5 THEN 5
                           ELSE built.space_unit_pts
                      n == Len(Separator(k))
                  IN  /\ Separator(k) = Spaces(n)
                      /\ \E r \in 0..(gap \div u + 1) :
                            /\ 2 * (r * u - gap) <= u
                            /\ 2 * (gap - r * u) <= u
                            /\ n = IF r > built.min_spaces THEN r
                                   ELSE built.min_spaces
                      /\ built.min_spaces >= 1 => n >= 1
                      /\ (gap = 90 /\ u = 30 /\ built.min_spaces = 1) => n = 3

\* A gap of 9 with spaceUnit 3.0 and minSpaces 1, separated by three spaces.
C7_Witness ==
    /\ built.called
    /\ built.space_unit_pts = 30 /\ built.min_spaces = 1
    /\ \E k \in 1..Len(built.gaps) : built.gaps[k] = 90 /\ Separator(k) = "   "

\* C8: before a Word whose gap is zero or negative the separator is one
\* space if gap > -0.3 * spaceUnit and empty otherwise, the boundary
\* gap = -0.3 * spaceUnit included in "empty"; a gap of -1 with spaceUnit 3.0
\* gives no space.
C8_TouchingGap ==
    built.called =>
        \A k \in 1..Len(built.gaps) :
            built.gaps[k] <= 0 =>
                LET gap == built.gaps[k]
                    unit == built.space_unit_pts
                IN  /\ (10 * gap + 3 * unit > 0) => Separator(k) = " "
                    /\ (10 * gap + 3 * unit <= 0) => Separator(k) = ""
                    /\ (gap = -10 /\ unit = 30) => Separator(k) = ""

\* A gap of -1 with spaceUnit 3.0, with nothing between the two Words.
C8_Witness ==
    /\ built.called
    /\ built.space_unit_pts = 30
    /\ \E k \in 1..Len(built.gaps) : built.gaps[k] = -10 /\ Separator(k) = ""

\* C20: the gap before each Word after the first is its x0 less the largest
\* x1 of all Words emitted before it in the line, which need not be the x1
\* of the Word just before it.
C20_GapFromRightmost ==
    built.called =>
        \A k \in 1..Len(built.gaps) :
            LET ws == built.sorted
                rightmost == CHOOSE m \in {ws[j].x1 : j \in 1..k} :
                                 \A j \in 1..k : ws[j].x1 <= m
            IN  built.gaps[k] = ws[k + 1].x0 - rightmost

\* A long Word, a short Word lying inside it, and a third Word that starts
\* right of the short Word and left of the long Word's right edge: its gap
\* is negative and it is joined without a space.
C20_Witness ==
    /\ built.called
    /\ Len(built.sorted) = 3
    /\ built.sorted[2].x1 < built.sorted[1].x1
    /\ built.sorted[3].x0 > built.sorted[2].x1 + built.space_unit_pts
    /\ built.gaps[2] = built.sorted[3].x0 - built.sorted[1].x1
    /\ built.gaps[2] < -built.space_unit_pts
    /\ Separator(2) = ""

(***************************************************************************)
(* The font size of the replacement text, stated on the record of the last *)
(* apply_replacements call.                                                *)
(***************************************************************************)
\* min(h * 0.6, 12) in hundredths of a point, for h in tenths of a point.
SizeBound(height) == IF 6 * height <= 1200 THEN 6 * height ELSE 1200

\* The label drawn over Region b by the last call.
LabelsOver(b) ==
    {l \in PostPage.labels : l.rect = b.rect /\ l.text = lastCall.text}

\* C18 as stated: the text over every replaced Region of height h is drawn
\* with font size min(h * 0.6, 12), so exactly h * 0.6 when that is at most 12.
C18_TextSizeExact ==
    lastCall.called =>
        \A i \in lastCall.hits :
            LET b == lastCall.boxes[i]
            IN  /\ LabelsOver(b) # {}
                /\ \A l \in LabelsOver(b) : 100 * l.font_size = SizeBound(b.height)

\* C18 as amended: the font size asked for the text over every replaced
\* Region of height h is min(h * 0.6, 12) truncated to a whole number of
\* points: never more than 12, and h * 0.6 itself only when that is whole.
C18_TextSizeTruncated ==
    lastCall.called =>
        \A i \in lastCall.hits :
            LET b == lastCall.boxes[i]
            IN  /\ LabelsOver(b) # {}
                /\ \A l \in LabelsOver(b) :
                      /\ 100 * l.font_size <= SizeBound(b.height)
                      /\ SizeBound(b.height) < 100 * (l.font_size + 1)
                      /\ l.font_size <= 12

\* A call that replaced a Region 18 points high, whose text was asked at
\* size 10 where 18 * 0.6 is 10.8, and a Region high enough for the cap.
C18_Witness ==
    /\ lastCall.called
    /\ \E i \in lastCall.hits :
          /\ lastCall.boxes[i].height = 180
          /\ \E l \in LabelsOver(lastCall.boxes[i]) : l.font_size = 10
    /\ \E i \in lastCall.hits :
          /\ lastCall.boxes[i].height > 200
          /\ \E l \in LabelsOver(lastCall.boxes[i]) : l.font_size = 12

(***************************************************************************)
(* Properties of find_boxes_on_page, stated on the page that is loaded and *)
(* the detection list self.all_boxes.                                      *)
(***************************************************************************)
\* The page self.all_boxes was detected on.
ShownPage == pdf_doc.pages[current_page + 1]

\* The pixel boxes of the connected components of the render of ShownPage.
Components == Contours(ShownPage)

\* The four bounds of the raster filter, for a pixel box c of a render of
\* pw by ph pixels.
PassesFilter(c, pw, ph) ==
    /\ c[3] > 20
    /\ c[4] > 10
    /\ 10 * c[3] < 8 * pw
    /\ 10 * c[4] < 8 * ph

\* C11: a component of the 2x render is a Region of the detection list if
\* and only if w > 20, h > 10, w < 0.8 * pageWidthPx and
\* h < 0.8 * pageHeightPx, all strict; the list holds nothing else, in
\* particular nothing of an earlier detection pass.
C11_RasterFilter ==
    Loaded(pdf_doc) =>
        LET kept == {i \in 1..Len(Components) :
                        PassesFilter(Components[i], 2 * ShownPage.w,
                                     2 * ShownPage.h)}
        IN  /\ \A i \in 1..Len(Components) :
                  (i \in kept) <=>
                      \E k \in 1..Len(all_boxes) :
                          ContourOf(all_boxes[k]) = Components[i]
            /\ Len(all_boxes) = Cardinality(kept)

\* A page with a 21 x 11 component, which is kept, and a component exactly
\* 0.8 of the render wide, which is dropped.
C11_Witness ==
    /\ Loaded(pdf_doc)
    /\ Len(Components) = 2
    /\ \E i \in 1..2 : Components[i][3] = 21 /\ Components[i][4] = 11
    /\ \E i \in 1..2 : 10 * Components[i][3] = 8 * 2 * ShownPage.w
    /\ Len(all_boxes) = 1
    /\ all_boxes[1].width = 105

\* C12: every Region of the detection list comes from a kept pixel box
\* (x, y, w, h) of the 2x render: its rect is (x/2, y/2, (x+w)/2, (y+h)/2)
\* exactly, its width and height are w/2 and h/2 to one decimal, both
\* positive; the records are determined by the pixel boxes, in their order.
C12_Mapping ==
    Loaded(pdf_doc) =>
        LET kept == SelectSeq(Components,
                        LAMBDA c : PassesFilter(c, 2 * ShownPage.w,
                                                2 * ShownPage.h))
        IN  /\ Len(all_boxes) = Len(kept)
            /\ \A k \in 1..Len(all_boxes) :
                  LET b == all_boxes[k]
                      c == kept[k]
                  IN  /\ b.rect = <<c[1], c[2], c[1] + c[3], c[2] + c[4]>>
                      /\ 2 * b.width = 10 * c[3]
                      /\ 2 * b.height = 10 * c[4]
                      /\ b.width > 0 /\ b.height > 0

\* A Region detected from a pixel box of odd width and height, 201 x 41,
\* whose width and height are 100.5 and 20.5.
C12_Witness ==
    /\ Loaded(pdf_doc)
    /\ \E k \in 1..Len(all_boxes) :
          /\ all_boxes[k].rect = <<250, 120, 451, 161>>
          /\ all_boxes[k].width = 1005
          /\ all_boxes[k].height = 205

\* C19: a fill primitive of the page is a Region of the detection list if
\* and only if its rect is wider than 5 and taller than 5 points and every
\* channel of its fill colour (black when none is set) is below 0.3; so a
\* primitive of colour [0.5, 0, 0] is never a Region.
C19_VectorRule ==
    Loaded(pdf_doc) =>
        \A i \in 1..Len(ShownPage.fills) :
            LET p == ShownPage.fills[i]
                color == IF p.color = NoColor THEN <<0, 0, 0>> ELSE p.color
            IN  (\E k \in 1..Len(all_boxes) : ContourOf(all_boxes[k]) = p.rect)
                <=> (/\ p.rect[3] > 10
                     /\ p.rect[4] > 10
                     /\ \A ch \in 1..3 : color[ch] < 30)

(***************************************************************************)
(* Properties of the handlers when a library call raises.                  *)
(***************************************************************************)
\* C13: when apply_replacements fails at any step, the failure reaches the
\* caller and the document has the same pages in the same order as before
\* the call.
C13_FailureKeepsDocument ==
    failure.where = "replace_boxes" =>
        /\ failure.surfaced # "none"
        /\ pdf_doc.pages = failure.pre.pdf_doc.pages

\* C14: when open_pdf fails, the error is reported and pdf_doc,
\* current_page, selected_box and all_boxes are as before the attempt.
C14_LoadFailureNoPartialState ==
    failure.where = "open_pdf" =>
        /\ failure.surfaced = "messagebox"
        /\ pdf_doc = failure.pre.pdf_doc
        /\ current_page = failure.pre.current_page
        /\ selected_box = failure.pre.selected_box
        /\ all_boxes = failure.pre.all_boxes

(***************************************************************************)
(* Properties of the batch run and of the reports.                         *)
(***************************************************************************)
\* C15: the loop takes the files of the sorted list one by one, each once;
\* a file whose extraction or report generation failed counts as one error
\* and not as processed; and when the loop has ended
\* processed_count + error_count is the number of input files.
C15_BatchCounts ==
    /\ Len(batch.log) = batch.i
    /\ \A k \in 1..Len(batch.log) :
          LET e == batch.log[k]
          IN  /\ e.rank = batch.pdf_files[k].rank
              /\ (e.extract_raised \/ e.report_raised) =>
                    (e.errors = 1 /\ e.processed = 0)
    /\ batch.done =>
          /\ batch.i = Len(batch.pdf_files)
          /\ batch.processed_count + batch.error_count = Len(batch.pdf_files)

\* C17: a report, and a results window that shows text, carries the
\* "no text stream - using OCR" warning if and only if ocr_mode is true.
C17_OcrWarning ==
    /\ \A k \in 1..Len(batch.reports) :
          batch.reports[k].warning <=> batch.reports[k].ocr_mode
    /\ (shown.called /\ shown.pages # {}) =>
          (shown.warning <=> shown.ocr_mode)

(***************************************************************************)
(* Properties of the font size build_line_text returns.                    *)
(***************************************************************************)
\* m is a median of the values vs: one of them, with at least half of the
\* values not above it and at least half not below it.
IsMedian(m, vs) ==
    /\ \E i \in 1..Len(vs) : vs[i] = m
    /\ 2 * Cardinality({i \in 1..Len(vs) : vs[i] <= m}) >= Len(vs)
    /\ 2 * Cardinality({i \in 1..Len(vs) : vs[i] >= m}) >= Len(vs)

\* The sizes that are present among the Words of the group, and the heights
\* bottom - top of its Words, each at least 6.0.
SizesPresent ==
    LET sized == SelectSeq(line_words, LAMBDA w : w.size # NoSize)
    IN  [i \in 1..Len(sized) |-> sized[i].size]

HeightsFloored ==
    [i \in 1..Len(line_words) |->
        IF line_words[i].bottom - line_words[i].top < 60 THEN 60
        ELSE line_words[i].bottom - line_words[i].top]

\* C16: build_line_text returns, as font size, a median of the sizes
\* present in the group; if no Word has a size, a median of the heights
\* floored at 6.0; and for the empty group the default 10.0.
C16_FontSizeMedian ==
    built.called =>
        /\ ~built.raised
        /\ IF SizesPresent # <<>> THEN IsMedian(built.font_size, SizesPresent)
           ELSE IF line_words # <<>>
           THEN IsMedian(built.font_size, HeightsFloored)
           ELSE built.font_size = 100

(***************************************************************************)
(* Properties of the session, stated on the handler last invoked and the   *)
(* session fields as it found them.                                        *)
(***************************************************************************)
\* The boxes of a list whose rect contains the point, bounds included.
BoxesAt(boxes, pt) ==
    {i \in 1..Len(boxes) :
        /\ boxes[i].rect[1] <= pt[1] /\ pt[1] <= boxes[i].rect[3]
        /\ boxes[i].rect[2] <= pt[2] /\ pt[2] <= boxes[i].rect[4]}

\* The Regions a detection pass finds on page number cur of a document.
DetectedOn(doc, cur) ==
    IF cur < Len(doc.pages)
    THEN LET found == find_boxes_on_page(doc.pages[cur + 1], cur)
         IN  {found[i] : i \in 1..Len(found)}
    ELSE {}

\* C22: every Region of all_boxes was detected on the page at current_page
\* of the loaded document and has current_page in its page field, and every
\* Region apply_replacements worked with was detected on the page it drew
\* on.
C22_ListOfCurrentPage ==
    /\ \A i \in 1..Len(all_boxes) :
          /\ all_boxes[i] \in DetectedOn(pdf_doc, current_page)
          /\ all_boxes[i].page = current_page
    /\ lastCall.called =>
          \A i \in 1..Len(lastCall.boxes) :
              lastCall.boxes[i] \in DetectedOn(lastCall.pre_doc, lastCall.page)

\* C23: with a document loaded current_page is a page number of it;
\* prev_page on the first page and next_page on the last page change
\* nothing, and every other prev_page or next_page moves current_page by
\* exactly one.
C23_PageIndexInRange ==
    /\ Loaded(pdf_doc) =>
          0 <= current_page /\ current_page < Len(pdf_doc.pages)
    /\ lastOp.name = "prev_page" =>
          IF ~Loaded(lastOp.pre.pdf_doc) \/ lastOp.pre.current_page = 0
          THEN Snapshot = lastOp.pre
          ELSE current_page = lastOp.pre.current_page - 1
    /\ lastOp.name = "next_page" =>
          IF \/ ~Loaded(lastOp.pre.pdf_doc)
             \/ lastOp.pre.current_page = Len(lastOp.pre.pdf_doc.pages) - 1
          THEN Snapshot = lastOp.pre
          ELSE current_page = lastOp.pre.current_page + 1

\* C24: selected_box is changed only by a click inside a detected box, which
\* makes it the first box of the list that contains the point, and by a
\* successful open_pdf, which clears it; every other handler, a click that
\* hits no box and an open_pdf that was cancelled or failed leave it as it
\* was.
C24_SelectionPersists ==
    LET pre == lastOp.pre
        found == BoxesAt(pre.all_boxes, lastOp.pt)
    IN  /\ lastOp.name = "on_canvas_click" =>
              selected_box =
                  IF found = {} THEN pre.selected_box
                  ELSE pre.all_boxes[CHOOSE i \in found : \A j \in found : i <= j]
        /\ lastOp.name = "open_pdf" =>
              selected_box =
                  IF lastOp.file # Cancelled.name /\ failure = NoFailure
                  THEN NoBox ELSE pre.selected_box
        /\ lastOp.name \in {"prev_page", "next_page", "zoom_in", "zoom_out",
                             "zoom_fit_width", "replace_boxes"} =>
              selected_box = pre.selected_box

\* C25: replace_boxes calls apply_replacements only with a document loaded,
\* a box selected and a non-empty text, and then with the selected box's
\* width and height and that text; with any of the three missing it makes
\* no call and leaves the document, current_page, all_boxes and
\* selected_box as they were.
C25_ReplaceGuarded ==
    lastOp.name = "replace_boxes" =>
        LET pre == lastOp.pre
        IN  IF /\ Loaded(pre.pdf_doc)
               /\ pre.selected_box # NoBox
               /\ lastOp.text # ""
            THEN /\ nReplace = pre.calls + 1
                 /\ lastCall.called
                 /\ lastCall.text = lastOp.text
                 /\ lastCall.pre_doc = pre.pdf_doc
                 /\ lastCall.page = pre.current_page
                 /\ lastCall.boxes = pre.all_boxes
                 /\ lastCall.target_width = pre.selected_box.width
                 /\ lastCall.target_height = pre.selected_box.height
            ELSE Snapshot = pre

\* replace_boxes invoked with a document loaded and a box selected, and the
\* dialog left empty.
C25_Witness ==
    /\ lastOp.name = "replace_boxes"
    /\ Loaded(lastOp.pre.pdf_doc)
    /\ lastOp.pre.selected_box # NoBox
    /\ lastOp.text = ""
    /\ lastOp.pre.calls > 0

====
